---- MODULE Spec2Model ----
(***************************************************************************)
(* A model of the PowerSaving score plugin                                 *)
(* (pkg/trimaran/powersaving/powersaving.go): plugin construction (New),   *)
(* the per-node Score call, NormalizeScore and PredictUtilisation, together*)
(* with the pod-assignment registry the Score call reads under its         *)
(* reader/writer lock.                                                     *)
(*                                                                         *)
(* float64 values are modelled as exact rationals [n |-> num, d |-> den]   *)
(* with d > 0, kept in lowest terms; math.Round is round-half-away-from-   *)
(* zero on them.                                                           *)
(***************************************************************************)
EXTENDS Integers, Sequences, FiniteSets

(***************************************************************************)
(* Program constants.                                                      *)
(***************************************************************************)
\* framework.MaxNodeScore and framework.MinNodeScore
MaxNodeScore == 100

MinNodeScore == 0

\* Time interval in seconds for each metrics agent ingestion.
metricsAgentReportingIntervalSeconds == 60

\* v1beta2.DefaultRequestsMilliCores, DefaultLowCPUThreshold, DefaultHighCPUThreshold,
\* the initial values of the package variables of lines 48-50 (the README names
\* 10 and 30 as the thresholds in practice); New overwrites both thresholds
\* before any Score call can run
DefaultRequestsMilliCores == 1000

DefaultLowCPUThreshold == 10

DefaultHighCPUThreshold == 30

(***************************************************************************)
(* Bounds of the model.                                                    *)
(***************************************************************************)
\* the longest list of pending records the registry holds for one node
MaxPods == 2

(***************************************************************************)
(* float64 arithmetic, as exact rationals.                                 *)
(***************************************************************************)
Abs(x) == IF x < 0 THEN -x ELSE x

RECURSIVE GCD(_, _)
GCD(a, b) == IF b = 0 THEN a ELSE GCD(b, a % b)

\* the rational num/den (den # 0) in lowest terms with a positive denominator
Rat(num, den) ==
    LET g == GCD(Abs(num), Abs(den))
        s == IF den < 0 THEN -1 ELSE 1
    IN  [n |-> (s * num) \div g, d |-> (s * den) \div g]

\* float64(i)
Float(i) == [n |-> i, d |-> 1]

RatAdd(a, b) == Rat(a.n * b.d + b.n * a.d, a.d * b.d)

RatSub(a, b) == Rat(a.n * b.d - b.n * a.d, a.d * b.d)

RatMul(a, b) == Rat(a.n * b.n, a.d * b.d)

\* a / b, b # 0
RatDiv(a, b) == Rat(a.n * b.d, a.d * b.n)

RatGeq(a, b) == a.n * b.d >= b.n * a.d

RatLeq(a, b) == a.n * b.d <= b.n * a.d

\* int64(math.Round(x)): the nearest integer, halves away from zero
Round(x) ==
    IF x.n >= 0
    THEN (2 * x.n + x.d) \div (2 * x.d)
    ELSE -((2 * (-x.n) + x.d) \div (2 * x.d))

(***************************************************************************)
(* Values of the collaborators' types.                                     *)
(***************************************************************************)
\* a v1.ResourceList: a map from resource names to milli-values
NoResources == [r \in {} |-> 0]

CpuResource(milli) == [r \in {"cpu"} |-> milli]

\* ResourceList.Cpu().MilliValue(): zero when the list has no cpu entry
CpuMilliValue(list) == IF "cpu" \in DOMAIN list THEN list["cpu"] ELSE 0

Container(limits, requests) == [Limits |-> limits, Requests |-> requests]

\* one entry of ScheduledPodsCache[nodeName]
PodInfo(ts, containers, overhead) ==
    [Timestamp |-> ts, Containers |-> containers, Overhead |-> overhead]

\* a watcher.Metric
Metric(type, operator, value) == [Type |-> type, Operator |-> operator, Value |-> value]

\* what collector.GetNodeMetrics returns: (nil, _) or (metrics, allMetrics)
NoMetrics == [isNil |-> TRUE, metrics |-> << >>, WindowEnd |-> 0]

NodeMetrics(metrics, windowEnd) == [isNil |-> FALSE, metrics |-> metrics, WindowEnd |-> windowEnd]

\* what NodeInfos().Get returns: an error, or a node with its cpu capacity
NodeNotFound == [found |-> FALSE, CapacityCpuMilli |-> 0]

NodeInfo(capMilli) == [found |-> TRUE, CapacityCpuMilli |-> capMilli]

\* a *pluginConfig.PowerSavingArgs; RequestsMultiplier is the multiplier the
\* configuration supplies
PowerSavingArgs(low, high, mult) ==
    [isArgs |-> TRUE, LowCPUThreshold |-> low, HighCPUThreshold |-> high,
     RequestsMultiplier |-> mult]

\* a runtime.Object of another type
OtherObject ==
    [isArgs |-> FALSE, LowCPUThreshold |-> 0, HighCPUThreshold |-> 0,
     RequestsMultiplier |-> Float(0)]

NodeNames == {"n1", "n2"}

Plugins == {"plA", "plB"}

Scorers == {"s1", "s2"}

(***************************************************************************)
(* State.                                                                  *)
(***************************************************************************)
VARIABLES
    requestsMilliCores,    \* package variable, line 48
    hostLowCPUThreshold,   \* package variable, line 49
    hostHighCPUThreshold,  \* package variable, line 50
    requestsMultiplier,    \* package variable, line 51
    plugins,               \* each New call: its position, its args, the *PowerSaving it returned
    scorers,               \* each Score call: its position and its local variables
    ScheduledPodsCache,    \* eventHandler.ScheduledPodsCache: node name -> pending records
    rwReaders,             \* the Score calls holding the registry's read lock
    rwWriter,              \* whether the event handler holds the registry's write lock
    scores,                \* the framework.NodeScoreList of the running cycle
    normalized             \* whether NormalizeScore has returned in the running cycle

vars ==
    << requestsMilliCores, hostLowCPUThreshold, hostHighCPUThreshold, requestsMultiplier,
       plugins, scorers, ScheduledPodsCache, rwReaders, rwWriter, scores, normalized >>

globals == << requestsMilliCores, hostLowCPUThreshold, hostHighCPUThreshold, requestsMultiplier >>

registry == << ScheduledPodsCache, rwReaders, rwWriter >>

cycle == << scores, normalized >>

\* a New call that has not started
NotConstructed == [pc |-> "none", args |-> OtherObject]

\* a Score call that has not started
IdleScorer ==
    [pc |-> "idle", pl |-> "none", nodeName |-> "none", score |-> MinNodeScore,
     status |-> "none", nodeInfo |-> NodeNotFound, metrics |-> NoMetrics,
     cpuMetricFound |-> FALSE, nodeCPUUtilPercent |-> Float(0),
     nodeCPUCapMillis |-> Float(0), nodeCPUUtilMillis |-> Float(0),
     missingCPUUtilMillis |-> 0, idx |-> 0,
     lowRead |-> 0, highRead |-> 0, zone |-> "none"]

Init ==
    /\ requestsMilliCores = DefaultRequestsMilliCores
    /\ hostLowCPUThreshold = DefaultLowCPUThreshold
    /\ hostHighCPUThreshold = DefaultHighCPUThreshold
    /\ requestsMultiplier = Float(0)
    /\ plugins = [i \in Plugins |-> NotConstructed]
    /\ scorers = [p \in Scorers |-> IdleScorer]
    /\ ScheduledPodsCache = [n \in NodeNames |-> << >>]
    /\ rwReaders = {}
    /\ rwWriter = FALSE
    /\ scores = << >>
    /\ normalized = FALSE

(***************************************************************************)
(* New, lines 62-100.  The thresholds are package variables: each line     *)
(* that assigns one is a step of its own, so that calls of New and Score   *)
(* running at once see each other's writes.                                *)
(***************************************************************************)
\* lines 62-74: the type assertion on obj, then hostHighCPUThreshold = args.HighCPUThreshold
NewBegin(i, obj) ==
    /\ plugins[i].pc = "none"
    /\ IF obj.isArgs
       THEN /\ plugins' = [plugins EXCEPT ![i] = [pc |-> "assignLow", args |-> obj]]
            /\ hostHighCPUThreshold' = obj.HighCPUThreshold
       ELSE /\ plugins' = [plugins EXCEPT ![i] = [pc |-> "failed", args |-> obj]]
            /\ UNCHANGED hostHighCPUThreshold
    /\ UNCHANGED << requestsMilliCores, hostLowCPUThreshold, requestsMultiplier, scorers,
                    registry, cycle >>

\* line 75: hostLowCPUThreshold = args.LowCPUThreshold
NewAssignLow(i) ==
    /\ plugins[i].pc = "assignLow"
    /\ hostLowCPUThreshold' = plugins[i].args.LowCPUThreshold
    /\ plugins' = [plugins EXCEPT ![i].pc = "clampHigh"]
    /\ UNCHANGED << requestsMilliCores, hostHighCPUThreshold, requestsMultiplier, scorers,
                    registry, cycle >>

\* lines 76-78
ClampHigh(high) == IF high > MaxNodeScore THEN MaxNodeScore ELSE high

NewClampHigh(i) ==
    /\ plugins[i].pc = "clampHigh"
    /\ hostHighCPUThreshold' = ClampHigh(hostHighCPUThreshold)
    /\ plugins' = [plugins EXCEPT ![i].pc = "clampLow"]
    /\ UNCHANGED << requestsMilliCores, hostLowCPUThreshold, requestsMultiplier, scorers,
                    registry, cycle >>

\* lines 79-81
ClampLow(low) == IF low < MinNodeScore THEN MinNodeScore ELSE low

NewClampLow(i) ==
    /\ plugins[i].pc = "clampLow"
    /\ hostLowCPUThreshold' = ClampLow(hostLowCPUThreshold)
    /\ plugins' = [plugins EXCEPT ![i].pc = "order"]
    /\ UNCHANGED << requestsMilliCores, hostHighCPUThreshold, requestsMultiplier, scorers,
                    registry, cycle >>

\* lines 82-84
OrderLow(low, high) == IF low > high THEN high ELSE low

NewOrder(i) ==
    /\ plugins[i].pc = "order"
    /\ hostLowCPUThreshold' = OrderLow(hostLowCPUThreshold, hostHighCPUThreshold)
    /\ plugins' = [plugins EXCEPT ![i].pc = "build"]
    /\ UNCHANGED << requestsMilliCores, hostHighCPUThreshold, requestsMultiplier, scorers,
                    registry, cycle >>

\* lines 86-99: the event handler is created and the *PowerSaving returned
NewReturn(i) ==
    /\ plugins[i].pc = "build"
    /\ plugins' = [plugins EXCEPT ![i].pc = "ready"]
    /\ UNCHANGED << globals, scorers, registry, cycle >>

(***************************************************************************)
(* PredictUtilisation, lines 203-212.                                      *)
(***************************************************************************)
PredictUtilisation(container) ==
    IF "cpu" \in DOMAIN container.Limits
    THEN CpuMilliValue(container.Limits)
    ELSE IF "cpu" \in DOMAIN container.Requests
         THEN Round(RatMul(Float(CpuMilliValue(container.Requests)), requestsMultiplier))
         ELSE requestsMilliCores

(***************************************************************************)
(* Score, lines 106-185.                                                   *)
(***************************************************************************)
\* lines 123-132: the scan of the metrics; a later matching sample overwrites an earlier one
RECURSIVE ScanMetrics(_, _)
ScanMetrics(metrics, acc) ==
    IF metrics = << >>
    THEN acc
    ELSE LET metric == Head(metrics)
             hit == /\ metric.Type = "CPU"
                    /\ (metric.Operator = "AVG" \/ metric.Operator = "Latest")
         IN  ScanMetrics(Tail(metrics),
                         IF hit
                         THEN [nodeCPUUtilPercent |-> metric.Value, cpuMetricFound |-> TRUE]
                         ELSE acc)

\* PredictUtil with `<=` for `<` at the reporting interval
PredictUtilInclusive(info, windowEnd) ==
    \/ info.Timestamp > windowEnd
    \/ /\ info.Timestamp <= windowEnd
       /\ (windowEnd - info.Timestamp) <= metricsAgentReportingIntervalSeconds

\* lines 150-151: whether a pending record is counted
PredictUtil(info, windowEnd) ==
    \/ info.Timestamp > windowEnd
    \/ /\ info.Timestamp <= windowEnd
       /\ (windowEnd - info.Timestamp) < metricsAgentReportingIntervalSeconds

\* lines 152-154: the containers of one record
RECURSIVE ContainersUtil(_)
ContainersUtil(containers) ==
    IF containers = << >>
    THEN 0
    ELSE PredictUtilisation(Head(containers)) + ContainersUtil(Tail(containers))

\* lines 150-157: what one pass of the loop body adds to missingCPUUtilMillis
LoopBody(info, windowEnd) ==
    IF PredictUtil(info, windowEnd)
    THEN ContainersUtil(info.Containers) + CpuMilliValue(info.Overhead)
    ELSE 0

\* Reconcile with the percentage capped at 100
ReconcileClamped(nodeCPUUtilPercent, nodeCPUUtilMillis, missingCPUUtilMillis, nodeCPUCapMillis) ==
    LET util == IF nodeCPUCapMillis.n # 0
                THEN RatDiv(RatMul(Float(100),
                                   RatAdd(nodeCPUUtilMillis, Float(missingCPUUtilMillis))),
                            nodeCPUCapMillis)
                ELSE nodeCPUUtilPercent
    IN  IF RatGeq(util, Float(100)) THEN Float(100) ELSE util

\* lines 162-164
Reconcile(nodeCPUUtilPercent, nodeCPUUtilMillis, missingCPUUtilMillis, nodeCPUCapMillis) ==
    IF nodeCPUCapMillis.n # 0
    THEN RatDiv(RatMul(Float(100), RatAdd(nodeCPUUtilMillis, Float(missingCPUUtilMillis))),
                nodeCPUCapMillis)
    ELSE nodeCPUUtilPercent

\* ThresholdPolicy with `>` for `>=` at the high threshold
ThresholdPolicyStrictHigh(nodeCPUUtilPercent, low, high) ==
    IF ~RatLeq(nodeCPUUtilPercent, Float(high))
    THEN [score |-> Round(nodeCPUUtilPercent), zone |-> "high"]
    ELSE IF RatLeq(nodeCPUUtilPercent, Float(low))
         THEN [score |-> Round(RatAdd(nodeCPUUtilPercent, Float(high - low))), zone |-> "low"]
         ELSE [score |-> Round(RatSub(nodeCPUUtilPercent, Float(low))), zone |-> "mid"]

\* ThresholdPolicy without the threshold gap added in the low branch
ThresholdPolicyNoShift(nodeCPUUtilPercent, low, high) ==
    IF RatGeq(nodeCPUUtilPercent, Float(high))
    THEN [score |-> Round(nodeCPUUtilPercent), zone |-> "high"]
    ELSE IF RatLeq(nodeCPUUtilPercent, Float(low))
         THEN [score |-> Round(nodeCPUUtilPercent), zone |-> "low"]
         ELSE [score |-> Round(RatSub(nodeCPUUtilPercent, Float(low))), zone |-> "mid"]

\* lines 174-180 (keplerEnabled is false): the score and the branch that set it
ThresholdPolicy(nodeCPUUtilPercent, low, high) ==
    IF RatGeq(nodeCPUUtilPercent, Float(high))
    THEN [score |-> Round(nodeCPUUtilPercent), zone |-> "high"]
    ELSE IF RatLeq(nodeCPUUtilPercent, Float(low))
         THEN [score |-> Round(RatAdd(nodeCPUUtilPercent, Float(high - low))), zone |-> "low"]
         ELSE [score |-> Round(RatSub(nodeCPUUtilPercent, Float(low))), zone |-> "mid"]

\* the nodes of the running cycle that have a score or a Score call in flight
NodesTaken ==
    {scores[k].Name : k \in DOMAIN scores} \cup {scorers[q].nodeName : q \in Scorers}

\* lines 106-111: the node lookup in the snapshot
ScoreBegin(p, pl, nodeName, nodeInfo) ==
    /\ scorers[p].pc = "idle"
    /\ plugins[pl].pc = "ready"
    /\ ~normalized
    /\ nodeName \notin NodesTaken
    /\ scorers' = [scorers EXCEPT ![p] =
          IF nodeInfo.found
          THEN [IdleScorer EXCEPT !.pc = "getMetrics", !.pl = pl, !.nodeName = nodeName,
                                  !.nodeInfo = nodeInfo]
          ELSE [IdleScorer EXCEPT !.pc = "done", !.pl = pl, !.nodeName = nodeName,
                                  !.status = "Error"]]
    /\ UNCHANGED << globals, plugins, registry, cycle >>

\* DegradedReturn with an error status, as a fail-closed plugin would return
DegradedReturnFailing(sc) == [sc EXCEPT !.pc = "done", !.status = "Error"]

\* lines 115-118 and 134-137: `return score, nil`, with score still MinNodeScore
DegradedReturn(sc) == [sc EXCEPT !.pc = "done", !.status = "nil"]

\* lines 113-141: GetNodeMetrics, the scan for the cpu sample, the capacity
ScoreGetNodeMetrics(p, m) ==
    /\ scorers[p].pc = "getMetrics"
    /\ LET found == ScanMetrics(m.metrics,
                                [nodeCPUUtilPercent |-> Float(0), cpuMetricFound |-> FALSE])
           cap == Float(scorers[p].nodeInfo.CapacityCpuMilli)
       IN  scorers' = [scorers EXCEPT ![p] =
              IF m.isNil
              THEN DegradedReturn(@)
              ELSE IF ~found.cpuMetricFound
                   THEN DegradedReturn([@ EXCEPT !.metrics = m])
                   ELSE [@ EXCEPT !.pc = "rlock", !.metrics = m,
                                  !.cpuMetricFound = TRUE,
                                  !.nodeCPUUtilPercent = found.nodeCPUUtilPercent,
                                  !.nodeCPUCapMillis = cap,
                                  !.nodeCPUUtilMillis =
                                      RatMul(RatDiv(found.nodeCPUUtilPercent, Float(100)), cap)]]
    /\ UNCHANGED << globals, plugins, registry, cycle >>

\* lines 143-144: pl.eventHandler.RLock()
ScoreRLock(p) ==
    /\ scorers[p].pc = "rlock"
    /\ ~rwWriter
    /\ rwReaders' = rwReaders \cup {p}
    /\ scorers' = [scorers EXCEPT ![p].pc = "loop", ![p].missingCPUUtilMillis = 0, ![p].idx = 1]
    /\ UNCHANGED << globals, plugins, ScheduledPodsCache, rwWriter, cycle >>

\* lines 145-158: one pass of the loop over ScheduledPodsCache[nodeName]
ScoreLoop(p) ==
    /\ scorers[p].pc = "loop"
    /\ scorers[p].idx <= Len(ScheduledPodsCache[scorers[p].nodeName])
    /\ LET info == ScheduledPodsCache[scorers[p].nodeName][scorers[p].idx]
       IN  scorers' = [scorers EXCEPT
              ![p].missingCPUUtilMillis = @ + LoopBody(info, scorers[p].metrics.WindowEnd),
              ![p].idx = @ + 1]
    /\ UNCHANGED << globals, plugins, registry, cycle >>

\* ScoreRUnlock without the RUnlock call
ScoreRUnlockKeepsLock(p) ==
    /\ scorers[p].pc = "loop"
    /\ scorers[p].idx > Len(ScheduledPodsCache[scorers[p].nodeName])
    /\ scorers' = [scorers EXCEPT ![p].pc = "policy"]
    /\ UNCHANGED << globals, plugins, registry, cycle >>

\* lines 159-160: the loop has ended; pl.eventHandler.RUnlock()
ScoreRUnlock(p) ==
    /\ scorers[p].pc = "loop"
    /\ scorers[p].idx > Len(ScheduledPodsCache[scorers[p].nodeName])
    /\ rwReaders' = rwReaders \ {p}
    /\ scorers' = [scorers EXCEPT ![p].pc = "policy"]
    /\ UNCHANGED << globals, plugins, ScheduledPodsCache, rwWriter, cycle >>

\* lines 162-184: the reconciled utilization, the threshold policy on the package
\* variables' values, the Success status.  The comparisons of lines 174-179 are
\* taken on one load of each package variable; a New call running at once is seen
\* between any two of its assignments.  lowRead, highRead and zone record the
\* values loaded and the branch taken.
ScoreThresholdPolicy(p) ==
    /\ scorers[p].pc = "policy"
    /\ LET util == Reconcile(scorers[p].nodeCPUUtilPercent, scorers[p].nodeCPUUtilMillis,
                             scorers[p].missingCPUUtilMillis, scorers[p].nodeCPUCapMillis)
           res == ThresholdPolicy(util, hostLowCPUThreshold, hostHighCPUThreshold)
       IN  scorers' = [scorers EXCEPT ![p] =
              [@ EXCEPT !.pc = "done", !.status = "Success", !.nodeCPUUtilPercent = util,
                        !.score = res.score, !.zone = res.zone,
                        !.lowRead = hostLowCPUThreshold, !.highRead = hostHighCPUThreshold]]
    /\ UNCHANGED << globals, plugins, registry, cycle >>

\* the call returns (score, status); the framework stores the score of a call that
\* returned no error in the cycle's NodeScoreList
ScoreReturn(p) ==
    /\ scorers[p].pc = "done"
    /\ scores' = IF scorers[p].status = "Error"
                 THEN scores
                 ELSE Append(scores, [Name |-> scorers[p].nodeName, Score |-> scorers[p].score])
    /\ scorers' = [scorers EXCEPT ![p] = IdleScorer]
    /\ UNCHANGED << globals, plugins, registry, normalized >>

(***************************************************************************)
(* NormalizeScore, lines 191-201.                                          *)
(***************************************************************************)
\* lines 193-197 on the loop variable nodeScore
ClampNodeScore(nodeScore) ==
    IF nodeScore.Score > MaxNodeScore
    THEN [nodeScore EXCEPT !.Score = MaxNodeScore]
    ELSE IF nodeScore.Score < MinNodeScore
         THEN [nodeScore EXCEPT !.Score = MinNodeScore]
         ELSE nodeScore

\* lines 192-198: `for _, nodeScore := range scores` copies each element of the
\* slice of structs into nodeScore; the assignments write the copy, and the
\* slice keeps its elements
NormalizedList(list) ==
    LET nodeScore == [k \in DOMAIN list |-> ClampNodeScore(list[k])]
    IN  [k \in DOMAIN list |-> list[k]]

NormalizeScore ==
    /\ ~normalized
    /\ scores # << >>
    /\ \A p \in Scorers : scorers[p].pc = "idle"
    /\ scores' = NormalizedList(scores)
    /\ normalized' = TRUE
    /\ UNCHANGED << globals, plugins, scorers, registry >>

\* the cycle ends: its list is dropped and the next pod's cycle may start
NextCycle ==
    /\ normalized
    /\ scores' = << >>
    /\ normalized' = FALSE
    /\ UNCHANGED << globals, plugins, scorers, registry >>

(***************************************************************************)
(* The event handler that owns the registry: it appends a record for a pod *)
(* bound to a node, under the write lock.                                  *)
(***************************************************************************)
HandlerLockAndAdd(nodeName, info) ==
    /\ ~rwWriter
    /\ rwReaders = {}
    /\ Len(ScheduledPodsCache[nodeName]) < MaxPods
    /\ rwWriter' = TRUE
    /\ ScheduledPodsCache' = [ScheduledPodsCache EXCEPT ![nodeName] = Append(@, info)]
    /\ UNCHANGED << globals, plugins, scorers, rwReaders, cycle >>

HandlerUnlock ==
    /\ rwWriter
    /\ rwWriter' = FALSE
    /\ UNCHANGED << globals, plugins, scorers, ScheduledPodsCache, rwReaders, cycle >>

(***************************************************************************)
(* Inputs.  The telemetry window of every snapshot ends at second 1000.    *)
(***************************************************************************)
Multiplier == [n |-> 3, d |-> 2]

ArgObjects ==
    { PowerSavingArgs(10, 30, Multiplier), PowerSavingArgs(30, 30, Multiplier),
      PowerSavingArgs(3, -5, Multiplier), PowerSavingArgs(-4, 120, Multiplier),
      PowerSavingArgs(50, 20, Multiplier), OtherObject }

NodeInfos == { NodeNotFound, NodeInfo(0), NodeInfo(1000) }

CpuAverage(n, d) == Metric("CPU", "AVG", [n |-> n, d |-> d])

MetricsResults ==
    { NoMetrics,
      NodeMetrics(<< >>, 1000),
      NodeMetrics(<< Metric("Memory", "AVG", Float(50)) >>, 1000),
      NodeMetrics(<< Metric("CPU", "Std", Float(99)) >>, 1000),
      NodeMetrics(<< CpuAverage(5, 1) >>, 1000),
      NodeMetrics(<< CpuAverage(10, 1) >>, 1000),
      NodeMetrics(<< CpuAverage(20, 1) >>, 1000),
      NodeMetrics(<< CpuAverage(59, 2) >>, 1000),
      NodeMetrics(<< CpuAverage(30, 1) >>, 1000),
      NodeMetrics(<< CpuAverage(95, 1) >>, 1000),
      NodeMetrics(<< CpuAverage(90, 1), Metric("Memory", "Latest", Float(70)),
                     Metric("CPU", "Latest", [n |-> 41, d |-> 2]),
                     Metric("CPU", "Std", Float(3)) >>, 1000) }

PodInfos ==
    { PodInfo(1001, << Container(CpuResource(200), CpuResource(100)) >>, NoResources),
      PodInfo(941, << Container(NoResources, CpuResource(100)),
                      Container(NoResources, NoResources) >>, CpuResource(50)),
      PodInfo(940, << Container(CpuResource(300), NoResources) >>, CpuResource(50)),
      PodInfo(1000, << Container(CpuResource(150), NoResources),
                       Container(CpuResource(50), CpuResource(25)) >>, NoResources) }

\* the inputs of the runs with Score calls, New calls and the event handler at once
FewArgObjects == { PowerSavingArgs(10, 30, Multiplier), PowerSavingArgs(40, 80, Multiplier) }

FewNodeInfos == { NodeNotFound, NodeInfo(1000) }

FewMetricsResults == { NoMetrics, NodeMetrics(<< CpuAverage(35, 1) >>, 1000) }

FewPodInfos == { PodInfo(1001, << Container(CpuResource(100), NoResources) >>, NoResources) }

(***************************************************************************)
(* Specifications.                                                         *)
(***************************************************************************)
\* one plugin instance, one Score call at a time, over the full inputs
Next ==
    \/ \E obj \in ArgObjects : NewBegin("plA", obj)
    \/ NewAssignLow("plA")
    \/ NewClampHigh("plA")
    \/ NewClampLow("plA")
    \/ NewOrder("plA")
    \/ NewReturn("plA")
    \/ \E nodeInfo \in NodeInfos : ScoreBegin("s1", "plA", "n1", nodeInfo)
    \/ \E m \in MetricsResults : ScoreGetNodeMetrics("s1", m)
    \/ ScoreRLock("s1")
    \/ ScoreLoop("s1")
    \/ ScoreRUnlock("s1")
    \/ ScoreThresholdPolicy("s1")
    \/ ScoreReturn("s1")
    \/ NormalizeScore
    \/ NextCycle
    \/ \E info \in PodInfos : HandlerLockAndAdd("n1", info)
    \/ HandlerUnlock

Spec == Init /\ [][Next]_vars

\* every plugin instance, Score call and the event handler, running at once
NextConcurrent ==
    \/ \E i \in Plugins, obj \in FewArgObjects : NewBegin(i, obj)
    \/ \E i \in Plugins : NewAssignLow(i)
    \/ \E i \in Plugins : NewClampHigh(i)
    \/ \E i \in Plugins : NewClampLow(i)
    \/ \E i \in Plugins : NewOrder(i)
    \/ \E i \in Plugins : NewReturn(i)
    \/ \E p \in Scorers, pl \in Plugins, nodeName \in NodeNames, nodeInfo \in FewNodeInfos :
          ScoreBegin(p, pl, nodeName, nodeInfo)
    \/ \E p \in Scorers, m \in FewMetricsResults : ScoreGetNodeMetrics(p, m)
    \/ \E p \in Scorers : ScoreRLock(p)
    \/ \E p \in Scorers : ScoreLoop(p)
    \/ \E p \in Scorers : ScoreRUnlock(p)
    \/ \E p \in Scorers : ScoreThresholdPolicy(p)
    \/ \E p \in Scorers : ScoreReturn(p)
    \/ NormalizeScore
    \/ NextCycle
    \/ \E info \in FewPodInfos : HandlerLockAndAdd("n1", info)
    \/ HandlerUnlock

SpecConcurrent == Init /\ [][NextConcurrent]_vars

(***************************************************************************)
(* Properties.                                                             *)
(***************************************************************************)
\* the Score calls that have computed their result and not yet returned
Done(p) == scorers[p].pc = "done"

Scored(p) == Done(p) /\ scorers[p].status = "Success"

\* a cpu sample with operator Average or Latest
IsCpuSample(metric) == metric.Type = "CPU" /\ metric.Operator \in {"AVG", "Latest"}

HasCpuSample(m) == ~m.isNil /\ \E k \in DOMAIN m.metrics : IsCpuSample(m.metrics[k])

Clamped(x) == IF x > 100 THEN 100 ELSE IF x < 0 THEN 0 ELSE x

\* C1: when NormalizeScore returns, the caller's list holds, entry by entry, the
\* score it held before clamped into [MinNodeScore, MaxNodeScore]
C1_NormalizeClampsInPlace ==
    [][ (~normalized /\ normalized') =>
           /\ Len(scores') = Len(scores)
           /\ \A k \in DOMAIN scores :
                 /\ scores'[k].Name = scores[k].Name
                 /\ scores'[k].Score = Clamped(scores[k].Score) ]_vars

\* C2: a Score call ends with an error status exactly when the node lookup failed;
\* with the node resolved and no metrics, or no cpu sample with operator Average or
\* Latest, it ends with MinNodeScore and no error
C2_ErrorOnlyForUnknownNode ==
    \A p \in Scorers :
        Done(p) =>
            /\ (scorers[p].status = "Error") <=> ~scorers[p].nodeInfo.found
            /\ (scorers[p].nodeInfo.found /\ ~HasCpuSample(scorers[p].metrics)) =>
                   /\ scorers[p].score = 0
                   /\ scorers[p].status = "nil"

C2_Witness ==
    \E p \in Scorers :
        /\ Done(p)
        /\ scorers[p].nodeInfo.found
        /\ ~scorers[p].metrics.isNil
        /\ scorers[p].metrics.metrics # << >>
        /\ ~HasCpuSample(scorers[p].metrics)
        /\ ScheduledPodsCache[scorers[p].nodeName] # << >>
        /\ scorers[p].score = 0
        /\ scorers[p].status = "nil"

\* C3: once New has returned, MinNodeScore <= hostLowCPUThreshold <=
\* hostHighCPUThreshold <= MaxNodeScore, whatever thresholds the args gave
C3_ThresholdsRepaired ==
    plugins["plA"].pc = "ready" =>
        /\ 0 <= hostLowCPUThreshold
        /\ hostLowCPUThreshold <= hostHighCPUThreshold
        /\ hostHighCPUThreshold <= 100

\* the three formulas of the threshold policy, as values
PolicyValues(util, low, high, score) ==
    /\ RatGeq(util, Float(high)) => score = Round(util)
    /\ RatLeq(util, Float(low)) => score = Round(RatAdd(util, Float(high - low)))
    /\ (~RatLeq(util, Float(low)) /\ ~RatGeq(util, Float(high))) =>
           score = Round(RatSub(util, Float(low)))

\* the literal cases with lowT = 10 and highT = 30
PolicyExamples(util, low, high, score) ==
    (low = 10 /\ high = 30) =>
        /\ util = Float(5) => score = 25
        /\ util = Float(30) => score = 30
        /\ util = Float(20) => score = 10
        /\ util = Float(95) => score = 95

\* C4, as stated: with lowT <= highT the score is the formula of the zone of util,
\* util = highT takes the high branch and util = lowT takes the low branch
C4_ZoneBoundariesAsStated ==
    \A p \in Scorers :
        (Scored(p) /\ scorers[p].lowRead <= scorers[p].highRead) =>
            LET util == scorers[p].nodeCPUUtilPercent
                low == scorers[p].lowRead
                high == scorers[p].highRead
            IN  /\ PolicyValues(util, low, high, scorers[p].score)
                /\ PolicyExamples(util, low, high, scorers[p].score)
                /\ RatGeq(util, Float(high)) => scorers[p].zone = "high"
                /\ RatLeq(util, Float(low)) => scorers[p].zone = "low"
                /\ (~RatLeq(util, Float(low)) /\ ~RatGeq(util, Float(high))) =>
                       scorers[p].zone = "mid"

\* C4, amended: with lowT <= highT the score is the formula of the zone of util;
\* util >= highT takes the high branch, util <= lowT with util < highT takes the low
\* branch, so util = lowT takes the low branch when lowT < highT and the high branch
\* (with the same score) when lowT = highT, and never the middle one
C4_ZoneBoundaries ==
    \A p \in Scorers :
        (Scored(p) /\ scorers[p].lowRead <= scorers[p].highRead) =>
            LET util == scorers[p].nodeCPUUtilPercent
                low == scorers[p].lowRead
                high == scorers[p].highRead
            IN  /\ PolicyValues(util, low, high, scorers[p].score)
                /\ PolicyExamples(util, low, high, scorers[p].score)
                /\ RatGeq(util, Float(high)) => scorers[p].zone = "high"
                /\ (RatLeq(util, Float(low)) /\ ~RatGeq(util, Float(high))) =>
                       scorers[p].zone = "low"
                /\ (~RatLeq(util, Float(low)) /\ ~RatGeq(util, Float(high))) =>
                       scorers[p].zone = "mid"
                /\ (util = Float(low) /\ low = high) =>
                       /\ scorers[p].zone = "high"
                       /\ scorers[p].score = Round(RatAdd(util, Float(high - low)))

C4_Witness ==
    \E p \in Scorers :
        /\ Scored(p)
        /\ scorers[p].lowRead = 30
        /\ scorers[p].highRead = 30
        /\ scorers[p].nodeCPUUtilPercent = Float(30)
        /\ scorers[p].zone = "high"
        /\ scorers[p].score = 30

\* the utilizations 0, 0.5, 1, ..., 130
Utilizations == { [n |-> k, d |-> 2] : k \in 0..260 }

\* C5: with 0 <= lowT <= highT and utilizations >= 0, the score of a node with
\* util >= highT is never lower than that of a node with util <= lowT, which is never
\* lower than that of a node with lowT < util < highT
C5_ZonesRanked ==
    \A p \in Scorers :
        (/\ Scored(p)
         /\ 0 <= scorers[p].lowRead
         /\ scorers[p].lowRead <= scorers[p].highRead
         /\ scorers[p].nodeCPUUtilPercent.n >= 0) =>
            LET util == scorers[p].nodeCPUUtilPercent
                low == Float(scorers[p].lowRead)
                high == Float(scorers[p].highRead)
                mine == scorers[p].score
            IN  \A other \in Utilizations :
                    LET theirs ==
                            ThresholdPolicy(other, scorers[p].lowRead, scorers[p].highRead).score
                    IN  /\ (RatGeq(util, high) /\ RatLeq(other, low)) => mine >= theirs
                        /\ (RatGeq(other, high) /\ RatLeq(util, low)) => theirs >= mine
                        /\ (/\ RatLeq(util, low)
                            /\ ~RatLeq(other, low) /\ ~RatGeq(other, high)) => mine >= theirs
                        /\ (/\ RatLeq(other, low)
                            /\ ~RatLeq(util, low) /\ ~RatGeq(util, high)) => theirs >= mine

C5_Witness ==
    \E p \in Scorers :
        /\ Scored(p)
        /\ scorers[p].lowRead = 10
        /\ scorers[p].highRead = 30
        /\ scorers[p].nodeCPUUtilPercent = Float(5)
        /\ scorers[p].score = 25
        /\ ThresholdPolicy(Float(29), 10, 30).score = 19
        /\ ThresholdPolicy(Float(30), 10, 30).score = 30

\* the containers of the pods the event handler may record
KnownContainers ==
    UNION { { info.Containers[k] : k \in DOMAIN info.Containers } : info \in PodInfos }

\* C6: PredictUtilisation returns the cpu limit when one is declared, else the cpu
\* request times the multiplier the plugin was constructed with, else the default
\* request millicores
C6_PredictorUsesConfiguredMultiplier ==
    plugins["plA"].pc = "ready" =>
        \A c \in KnownContainers :
            PredictUtilisation(c) =
                IF "cpu" \in DOMAIN c.Limits
                THEN c.Limits["cpu"]
                ELSE IF "cpu" \in DOMAIN c.Requests
                     THEN Round(RatMul(Float(c.Requests["cpu"]),
                                       plugins["plA"].args.RequestsMultiplier))
                     ELSE requestsMilliCores

\* what the claim's rule makes one pending record contribute
RECURSIVE SumPredicted(_)
SumPredicted(containers) ==
    IF containers = << >>
    THEN 0
    ELSE PredictUtilisation(Head(containers)) + SumPredicted(Tail(containers))

RecordContribution(info, windowEnd) ==
    IF info.Timestamp > windowEnd
       \/ (info.Timestamp <= windowEnd /\ windowEnd - info.Timestamp < 60)
    THEN SumPredicted(info.Containers)
         + (IF "cpu" \in DOMAIN info.Overhead THEN info.Overhead["cpu"] ELSE 0)
    ELSE 0

RECURSIVE SumContributions(_, _, _)
SumContributions(records, upTo, windowEnd) ==
    IF upTo = 0
    THEN 0
    ELSE SumContributions(records, upTo - 1, windowEnd)
         + RecordContribution(records[upTo], windowEnd)

\* C7: while Score iterates the node's pending records, the missing utilization is
\* the sum, over the records passed, of the predicted utilization of the containers
\* plus the overhead cpu of each record with ts > End, or ts <= End and
\* End - ts < 60, and nothing for any other record
C7_MissingUtilization ==
    \A p \in Scorers :
        scorers[p].pc = "loop" =>
            scorers[p].missingCPUUtilMillis =
                SumContributions(ScheduledPodsCache[scorers[p].nodeName],
                                 scorers[p].idx - 1, scorers[p].metrics.WindowEnd)

C7_Witness ==
    \E p \in Scorers :
        /\ scorers[p].pc = "loop"
        /\ scorers[p].idx = 3
        /\ scorers[p].metrics.WindowEnd = 1000
        /\ \E j, k \in 1..2 :
              /\ ScheduledPodsCache[scorers[p].nodeName][j].Timestamp = 1001
              /\ ScheduledPodsCache[scorers[p].nodeName][k].Timestamp = 940
        /\ scorers[p].missingCPUUtilMillis = 200

\* the read lock is held by exactly the Score calls that are iterating, and never
\* together with the write lock
LockDiscipline ==
    /\ \A p \in Scorers : p \in rwReaders <=> scorers[p].pc = "loop"
    /\ ~(rwWriter /\ rwReaders # {})

\* a step of a Score call leaves the registry's records as they are, and the
\* records change only while no Score call is iterating
RegistrySteps ==
    /\ scorers' # scorers => ScheduledPodsCache' = ScheduledPodsCache
    /\ ScheduledPodsCache' # ScheduledPodsCache =>
           \A p \in Scorers : scorers[p].pc # "loop" /\ scorers'[p].pc # "loop"

\* C8: a Score call holds the read lock only while it iterates the pending records
\* (not in the node lookup, not in GetNodeMetrics, not once it has finished), never
\* writes the registry, and no writer changes the registry during an iteration
C8_ReadLockDiscipline == [](LockDiscipline) /\ [][RegistrySteps]_vars

C8_Witness ==
    /\ rwReaders = Scorers
    /\ \E p \in Scorers :
          /\ scorers[p].idx = 2
          /\ Len(ScheduledPodsCache[scorers[p].nodeName]) = 2

\* the thresholds New derives from its args when it runs alone
OwnHigh(args) == IF args.HighCPUThreshold > 100 THEN 100 ELSE args.HighCPUThreshold

OwnLow(args) ==
    LET low == IF args.LowCPUThreshold < 0 THEN 0 ELSE args.LowCPUThreshold
    IN  IF low > OwnHigh(args) THEN OwnHigh(args) ELSE low

\* C9: a Score call on a plugin instance uses the thresholds derived from that
\* instance's own args, with low <= high, whatever New calls ran before or run
\* at the same time
C9_OwnThresholds ==
    \A p \in Scorers :
        Scored(p) =>
            /\ scorers[p].lowRead = OwnLow(plugins[scorers[p].pl].args)
            /\ scorers[p].highRead = OwnHigh(plugins[scorers[p].pl].args)
            /\ scorers[p].lowRead <= scorers[p].highRead

\* the value of the last cpu sample with operator Average or Latest
TelemetryPercent(m) ==
    LET hits == { k \in DOMAIN m.metrics : IsCpuSample(m.metrics[k]) }
        last == CHOOSE k \in hits : \A j \in hits : j <= k
    IN  m.metrics[last].Value

\* C10: the utilization given to the threshold policy is
\* 100 * ((percent / 100) * capacity + missing) / capacity, unclamped, for a node
\* with capacity, and the telemetry percentage for a node with zero capacity; the
\* call ends with a success status either way
C10_ReconciledUtilization ==
    \A p \in Scorers :
        (Done(p) /\ scorers[p].nodeInfo.found /\ HasCpuSample(scorers[p].metrics)) =>
            LET percent == TelemetryPercent(scorers[p].metrics)
                cap == scorers[p].nodeInfo.CapacityCpuMilli
                missing == scorers[p].missingCPUUtilMillis
                util == scorers[p].nodeCPUUtilPercent
            IN  /\ scorers[p].status = "Success"
                /\ cap # 0 =>
                       util.n * (percent.d * cap)
                           = util.d * (percent.n * cap + 100 * missing * percent.d)
                /\ cap = 0 => util = percent

C10_Witness ==
    \E p \in Scorers :
        /\ Scored(p)
        /\ scorers[p].nodeInfo.CapacityCpuMilli = 1000
        /\ TelemetryPercent(scorers[p].metrics) = Float(95)
        /\ scorers[p].missingCPUUtilMillis = 400
        /\ scorers[p].nodeCPUUtilPercent = Float(135)
        /\ scorers[p].score = 135

====
